---------------------------- MODULE Spec2Model ----------------------------
(***************************************************************************)
(* A model of the lambrecht weather-station logger:                        *)
(*   - lambrecht/influx.py    class Influx: the forwarding queue and its    *)
(*                            worker thread (_send_measurements);          *)
(*   - lambrecht/lambrecht.py class Report and class Lambrecht: the poll    *)
(*                            thread, the sentence decoder                  *)
(*                            (_extract_messages) and the report assembler *)
(*                            (_analyse_message).                          *)
(*                                                                         *)
(* Three state machines share the variables of this module:                *)
(*   Spec / SpecFair  the Influx object, its worker thread and the main    *)
(*                    thread calling start(), __call__() and stop();       *)
(*   SpecPoll         the Lambrecht poll thread reading a serial line;     *)
(*   SpecDecoder      _extract_messages applied to arbitrary buffers.      *)
(* Each specification leaves the variables of the other two untouched.     *)
(*                                                                         *)
(* Not modelled: the timestamps the assembler writes (Report.time is kept  *)
(* only on the Influx side, where it names the report), bytes that are not *)
(* ASCII (bytes.decode() raising), and exceptions that leave _poll itself  *)
(* (the time.sleep(10) branch of _poll_thread).                            *)
(***************************************************************************)
EXTENDS Integers, Sequences, FiniteSets, TLC

VARIABLES
    \* ---- lambrecht/influx.py, class Influx ----
    client,      \* self._client is not None (all four credentials were given)
    queue,       \* self._queue: the Report objects waiting, head first
    heap,        \* the values dicts of the submitted Reports, by reference
    closing,     \* self._closing (threading.Event)
    wpc,         \* where the worker thread (self._thread) stands
    held,        \* the worker's local variable `report`
    sunk,        \* the records the sink accepted, in order of acceptance
    handed,      \* the values of every Report as they were when submitted
    failsLeft,   \* transient sink failures the environment may still produce
    mpc,         \* where the main thread stands (start / stop / join)
    attempts,    \* how many times write_api.write() was called
    pauses,      \* how many times time.sleep(10) was taken
    \* ---- lambrecht/lambrecht.py, class Lambrecht ----
    conn,        \* self._conn: "none" (None) or "open"
    serial_errors, \* self._serial_errors
    sleep_time,  \* self._sleep_time
    raw_data,    \* self._raw_data
    report,      \* self._report: [id, values]
    calls,       \* the Reports passed to self._callback, as seen at the call
    fed,         \* the arguments of the _analyse_message calls, in order
    pclosing,    \* Lambrecht._closing (threading.Event)
    ppc,         \* where the poll thread stands
    stream,      \* the bytes the station sends after the connection opened
    wire,        \* the part of stream that no read has returned yet
    \* ---- _extract_messages as a function ----
    dbuf,        \* the buffer given to _extract_messages
    dout,        \* what it returned: [msgs, rest]
    dpc          \* "idle", "in" before the call, "out" after it

influxVars == <<client, queue, heap, closing, wpc, held, sunk, handed, failsLeft, mpc,
                attempts, pauses>>
pollVars == <<conn, serial_errors, sleep_time, raw_data, report, calls, fed,
              pclosing, ppc, stream, wire>>
decVars == <<dbuf, dout, dpc>>
vars == <<influxVars, pollVars, decVars>>

(***************************************************************************)
(* Bounds of the model.                                                    *)
(***************************************************************************)
MaxReports == 3
MaxFail == 2

\* The worker's `report` before the first get: no Report object.
NoReport == [values |-> 0, time |-> 0]

(***************************************************************************)
(* Reports as the Influx object sees them.  A Report object is             *)
(* [values |-> reference to its values dict, time |-> its timestamp].      *)
(* The wind speeds are integers; the conversion factor 3.6 is 36/10 and    *)
(* the product is cut to an integer.                                       *)
(***************************************************************************)
WindSpeeds == {5, 10}

ReportValues ==
    {("temp" :> 20 @@ "windspeed" :> w) : w \in WindSpeeds} \cup {("temp" :> 20)}

\* Report.copy(): a new Report object with the SAME values dict and time.
Copy(r) == [values |-> r.values, time |-> r.time]

\* report.values["windspeed"] *= 3.6, when the key is present.
Kmh(v) == (v * 36) \div 10

ConvertWindspeed(d) ==
    IF "windspeed" \in DOMAIN d
        THEN [d EXCEPT !["windspeed"] = Kmh(d["windspeed"])]
        ELSE d

\* A queue that takes new entries at its head.
QueuePutFront(q, r) == <<r>> \o q

\* queue.Queue.put(): FIFO, the item goes to the tail.
QueuePut(q, r) == Append(q, r)

\* A worker that puts the failed report back twice.
PutBackTwice(q, r) == Append(Append(q, r), r)

\* A worker that forgets the failed report.
PutBackLost(q, r) == q

\* The except branch of the write: self._queue.put(report).
PutBack(q, r) == QueuePut(q, r)

\* The record handed to write_api.write().
SinkRecord(r, h) == [time |-> r.time, fields |-> h[r.values]]

(***************************************************************************)
(* lambrecht/lambrecht.py.  A byte string is a sequence of one-character   *)
(* strings.  A float is kept in tenths: "12.5" is 125, "180" is 1800.      *)
(***************************************************************************)
MaxSentences == 6
MaxSerialErrors == 100
MaxBuf == 5

NL == "\n"
Comma == ","

\* self._thread_sleep and self._max_thread_sleep
ThreadSleep == 1
MaxThreadSleep == 900

RequiredFields == {"temp", "winddir", "windspeed", "humid", "dewpoint", "press"}

TagTA == <<"$", "W", "I", "M", "T", "A">>
TagWV == <<"$", "W", "I", "M", "W", "V">>
TagHU == <<"$", "W", "I", "M", "H", "U">>
TagMB == <<"$", "W", "I", "M", "M", "B">>

\* The sentences of one report cycle of the station, as in the scenario of
\* the specification but with one-digit values:
\* $WIMTA,5  $WIMWV,7,,3  $WIMHU,6,,4  $WIMMB,,,8
SentenceTA == TagTA \o <<",", "5", NL>>
SentenceWV == TagWV \o <<",", "7", ",", ",", "3", NL>>
SentenceHU == TagHU \o <<",", "6", ",", ",", "4", NL>>
SentenceMB == TagMB \o <<",", ",", ",", "8", NL>>

Cycle == <<SentenceTA, SentenceWV, SentenceHU, SentenceMB>>

\* A second temperature sentence with another value: $WIMTA,9
SentenceTA9 == TagTA \o <<",", "9", NL>>

\* The values the sentences of the cycle carry, in tenths.
CycleValues ==
    [temp |-> 50, winddir |-> 70, windspeed |-> 30,
     humid |-> 60, dewpoint |-> 40, press |-> 80]

RECURSIVE Flatten(_)
Flatten(ss) == IF ss = <<>> THEN <<>> ELSE Head(ss) \o Flatten(Tail(ss))

\* n sentences of the cycle, beginning with sentence number o + 1.
Window(o, n) == [i \in 1..n |-> Cycle[((o + i - 1) % Len(Cycle)) + 1]]

\* What the station may send: the station repeats its cycle, the program
\* starts to listen at any sentence of it.  A read never returns bytes the
\* station has not sent yet, so a state in which the bytes read so far end
\* with a sentence is a state in which the station sent just that much.
CycleStreams == {Flatten(Window(o, MaxSentences)) : o \in 0..(Len(Cycle) - 1)}

\* The station sends the temperature twice, with two values, before the
\* other sentences of the cycle.
RepeatStream ==
    Flatten(<<SentenceMB, SentenceTA, SentenceTA9>> \o Window(1, MaxSentences - 3))

Streams == CycleStreams \cup {RepeatStream}

Range(f) == {f[i] : i \in DOMAIN f}

\* bytes.index(c): the first position of c, counted from 1.
Index(b, c) == CHOOSE i \in 1..Len(b) : b[i] = c /\ \A j \in 1..(i - 1) : b[j] # c

\* A loop that cuts the message before its terminator and drops the latter.
RECURSIVE ExtractLoopCutsTerminator(_, _)
ExtractLoopCutsTerminator(msgs, b) ==
    IF NL \in Range(b)
        THEN LET pos == Index(b, NL)
             IN  ExtractLoopCutsTerminator(Append(msgs, SubSeq(b, 1, pos - 1)),
                                           SubSeq(b, pos + 1, Len(b)))
        ELSE [msgs |-> msgs, rest |-> b]

\* The while loop of _extract_messages.
RECURSIVE ExtractLoop(_, _)
ExtractLoop(msgs, b) ==
    IF NL \in Range(b)
        THEN LET pos == Index(b, NL)
             IN  ExtractLoop(Append(msgs, SubSeq(b, 1, pos)), SubSeq(b, pos + 1, Len(b)))
        ELSE [msgs |-> msgs, rest |-> b]

\* _extract_messages: the complete messages of the buffer and the rest.
ExtractMessages(b) ==
    IF b = <<>> THEN [msgs |-> <<>>, rest |-> <<>>] ELSE ExtractLoop(<<>>, b)

\* str.split(","): the fields between the commas, empty ones included.
RECURSIVE Split(_)
Split(line) ==
    IF Comma \in Range(line)
        THEN LET pos == Index(line, Comma)
             IN  <<SubSeq(line, 1, pos - 1)>> \o Split(SubSeq(line, pos + 1, Len(line)))
        ELSE <<line>>

Digit == "0" :> 0 @@ "1" :> 1 @@ "2" :> 2 @@ "3" :> 3 @@ "4" :> 4 @@
         "5" :> 5 @@ "6" :> 6 @@ "7" :> 7 @@ "8" :> 8 @@ "9" :> 9

Whitespace == {" ", NL, "\r", "\t"}

\* float() strips the white space around the number.
RECURSIVE Strip(_)
Strip(t) ==
    IF t = <<>> THEN t
    ELSE IF Head(t) \in Whitespace THEN Strip(Tail(t))
    ELSE IF t[Len(t)] \in Whitespace THEN Strip(SubSeq(t, 1, Len(t) - 1))
    ELSE t

AllDigits(t) == \A i \in 1..Len(t) : t[i] \in DOMAIN Digit

RECURSIVE Number(_)
Number(t) == IF t = <<>> THEN 0 ELSE 10 * Number(SubSeq(t, 1, Len(t) - 1)) + Digit[t[Len(t)]]

Unsigned(t) == IF t # <<>> /\ Head(t) \in {"+", "-"} THEN Tail(t) ELSE t
IntPart(t) == IF "." \in Range(t) THEN SubSeq(t, 1, Index(t, ".") - 1) ELSE t
FracPart(t) == IF "." \in Range(t) THEN SubSeq(t, Index(t, ".") + 1, Len(t)) ELSE <<>>

\* float(t) returns: digits with at most one point and at least one digit,
\* an optional sign before them.  Anything else raises ValueError.
IsFloat(t) ==
    LET u == Unsigned(Strip(t))
    IN  /\ AllDigits(IntPart(u))
        /\ AllDigits(FracPart(u))
        /\ Len(IntPart(u)) + Len(FracPart(u)) > 0

\* float(t) in tenths (further decimal places are cut).
Float(t) ==
    LET u == Unsigned(Strip(t))
        f == FracPart(u)
        m == 10 * Number(IntPart(u)) + (IF f = <<>> THEN 0 ELSE Digit[f[1]])
    IN  IF Strip(t) # <<>> /\ Head(Strip(t)) = "-" THEN 0 - m ELSE m

\* {}: the values of a new Report.
EmptyDict == [k \in {} |-> 0]

\* d[k] = v
DictSet(d, k, v) == [x \in (DOMAIN d) \cup {k} |-> IF x = k THEN v ELSE d[x]]

\* Report(): a new object with its own empty values dict.
NewReport(id) == [id |-> id, values |-> EmptyDict]

\* Report.finished()
Finished(r) == \A c \in RequiredFields : c \in DOMAIN r.values

(***************************************************************************)
(* The assembler.  Its state is [report, calls, fed, exc]: self._report,   *)
(* the callback calls so far, the _analyse_message arguments so far, and   *)
(* whether an exception is on its way out.                                 *)
(***************************************************************************)
\* The line _analyse_message decodes and splits: it reads self._raw_data,
\* which at this point is the rest _extract_messages left, not its argument.
AnalysedLine(msg, rest) == rest

\* self._report.values[k] = float(s[i]); IndexError or ValueError otherwise.
SetField(a, k, s, i) ==
    IF a.exc THEN a
    ELSE IF i + 1 > Len(s) \/ ~IsFloat(s[i + 1]) THEN [a EXCEPT !.exc = TRUE]
    ELSE [a EXCEPT !.report.values = DictSet(@, k, Float(s[i + 1]))]

\* The if/elif chain over the first token.
Dispatch(a, s) ==
    IF s[1] = TagTA THEN SetField(a, "temp", s, 1)
    ELSE IF s[1] = TagWV THEN SetField(SetField(a, "winddir", s, 1), "windspeed", s, 3)
    ELSE IF s[1] = TagHU THEN SetField(SetField(a, "humid", s, 1), "dewpoint", s, 3)
    ELSE IF s[1] = TagMB THEN SetField(a, "press", s, 3)
    ELSE a

\* What the callback sees: self._report, its id and values; `after` notes
\* how many _analyse_message calls had begun by then.
ReportAtCall(a) == [id |-> a.report.id, values |-> a.report.values, after |-> Len(a.fed)]

\* "finished?": the callback gets self._report itself; the new Report is
\* made only when the callback returned.
Emit(a, raises) ==
    IF a.exc \/ ~Finished(a.report) THEN a
    ELSE LET called == [a EXCEPT !.calls = Append(@, ReportAtCall(a))]
         IN  IF raises THEN [called EXCEPT !.exc = TRUE]
             ELSE [called EXCEPT !.report = NewReport(a.report.id + 1)]

\* _analyse_message(msg) while self._raw_data is rest.
AnalyseMessage(a, msg, rest, raises) ==
    LET line == AnalysedLine(msg, rest)
        b == [a EXCEPT !.fed = Append(@, msg)]
    IN  IF Len(line) = 0 \/ line = <<NL>> THEN b
        ELSE Emit(Dispatch(b, Split(line)), raises)

\* for msg in msgs: self._analyse_message(msg)
RECURSIVE AnalyseAll(_, _, _, _)
AnalyseAll(a, msgs, rest, raises) ==
    IF msgs = <<>> \/ a.exc THEN a
    ELSE AnalyseAll(AnalyseMessage(a, Head(msgs), rest, raises), Tail(msgs), rest, raises)

\* _read_data once self._conn.read() returned chunk: [raw, report, calls,
\* fed, exc].  `raises` tells whether the callback raises in this read.
ReadData(raw, a, chunk, raises) ==
    LET ex == ExtractMessages(raw \o chunk)
        b == AnalyseAll([a EXCEPT !.exc = FALSE], ex.msgs, ex.rest, raises)
    IN  [raw |-> ex.rest, report |-> b.report, calls |-> b.calls,
         fed |-> b.fed, exc |-> b.exc]

\* The assembler state of a Lambrecht object that has read nothing.
FreshAssembler == [report |-> NewReport(1), calls |-> <<>>, fed |-> <<>>, exc |-> FALSE]

(***************************************************************************)
(* The poll thread.                                                        *)
(***************************************************************************)
PollInit ==
    /\ conn = "none"
    /\ serial_errors = 0
    /\ sleep_time = ThreadSleep
    /\ raw_data = <<>>
    /\ report = NewReport(1)
    /\ calls = <<>>
    /\ fed = <<>>
    /\ pclosing = FALSE
    /\ ppc = "idle"
    /\ stream = <<>>
    /\ wire = <<>>

\* start_polling(callback) and the "init" of _poll_thread.
StartPolling ==
    /\ ppc = "idle"
    /\ ppc' = "loop"
    /\ pclosing' = FALSE
    /\ serial_errors' = 0
    /\ sleep_time' = ThreadSleep
    /\ raw_data' = <<>>
    /\ UNCHANGED <<conn, report, calls, fed, stream, wire>>
    /\ UNCHANGED <<influxVars, decVars>>

\* stop_polling(): self._closing.set()
StopPolling ==
    /\ ppc # "idle"
    /\ ~pclosing
    /\ pclosing' = TRUE
    /\ UNCHANGED <<conn, serial_errors, sleep_time, raw_data, report, calls, fed,
                   ppc, stream, wire>>
    /\ UNCHANGED <<influxVars, decVars>>

\* A loop that does not look at the closing event.
PollLoopIgnoresStop ==
    /\ ppc = "loop"
    /\ ppc' = IF conn = "none" THEN "connect" ELSE "read"
    /\ UNCHANGED <<conn, serial_errors, sleep_time, raw_data, report, calls, fed,
                   pclosing, stream, wire>>
    /\ UNCHANGED <<influxVars, decVars>>

\* while not self._closing.is_set(): self._poll(), which begins with
\* "if self._conn is None".
PollLoop ==
    /\ ppc = "loop"
    /\ ppc' = IF pclosing THEN "close"
              ELSE IF conn = "none" THEN "connect" ELSE "read"
    /\ UNCHANGED <<conn, serial_errors, sleep_time, raw_data, report, calls, fed,
                   pclosing, stream, wire>>
    /\ UNCHANGED <<influxVars, decVars>>

\* _connect_serial() succeeded: the station's bytes start to arrive.
ConnectOk ==
    /\ ppc = "connect"
    /\ conn' = "open"
    /\ serial_errors' = 0
    /\ sleep_time' = ThreadSleep
    /\ \E b \in Streams : stream' = b /\ wire' = b
    /\ ppc' = "read"
    /\ UNCHANGED <<raw_data, report, calls, fed, pclosing>>
    /\ UNCHANGED <<influxVars, decVars>>

\* The sleep time after the n-th failed connection in a row.
NextSleepTime(n, t) ==
    IF n % 10 = 0
        THEN IF t < MaxThreadSleep THEN t * 2 ELSE ThreadSleep
        ELSE t

\* _connect_serial() raised SerialException.
ConnectFail ==
    /\ ppc = "connect"
    /\ serial_errors < MaxSerialErrors
    /\ serial_errors' = serial_errors + 1
    /\ sleep_time' = NextSleepTime(serial_errors + 1, sleep_time)
    /\ ppc' = "backoff"
    /\ UNCHANGED <<conn, raw_data, report, calls, fed, pclosing, stream, wire>>
    /\ UNCHANGED <<influxVars, decVars>>

\* self._closing.wait(self._sleep_time) returned, by time or by the event;
\* self._conn is still None, _poll returns.
BackoffEnd ==
    /\ ppc = "backoff"
    /\ ppc' = "loop"
    /\ UNCHANGED <<conn, serial_errors, sleep_time, raw_data, report, calls, fed,
                   pclosing, stream, wire>>
    /\ UNCHANGED <<influxVars, decVars>>

\* self._conn.read() returned the next k bytes (none on a timeout) and
\* _read_data went on; an exception of it ends in the wait of _poll.
Read ==
    /\ ppc = "read"
    /\ \E k \in 0..Len(wire), raises \in BOOLEAN :
        LET r == ReadData(raw_data,
                          [report |-> report, calls |-> calls, fed |-> fed, exc |-> FALSE],
                          SubSeq(wire, 1, k), raises)
        IN  /\ wire' = SubSeq(wire, k + 1, Len(wire))
            /\ raw_data' = r.raw
            /\ report' = r.report
            /\ calls' = r.calls
            /\ fed' = r.fed
            /\ ppc' = IF r.exc THEN "readwait" ELSE "loop"
    /\ UNCHANGED <<conn, serial_errors, sleep_time, pclosing, stream>>
    /\ UNCHANGED <<influxVars, decVars>>

\* self._conn.read() raised.
ReadFail ==
    /\ ppc = "read"
    /\ ppc' = "readwait"
    /\ UNCHANGED <<conn, serial_errors, sleep_time, raw_data, report, calls, fed,
                   pclosing, stream, wire>>
    /\ UNCHANGED <<influxVars, decVars>>

\* self._closing.wait(self._sleep_time) of the read's except branch returned.
ReadWaitEnd ==
    /\ ppc = "readwait"
    /\ ppc' = "loop"
    /\ UNCHANGED <<conn, serial_errors, sleep_time, raw_data, report, calls, fed,
                   pclosing, stream, wire>>
    /\ UNCHANGED <<influxVars, decVars>>

\* After the loop: self._conn.close(); with self._conn None this raises
\* AttributeError and the thread ends by it.
PollClose ==
    /\ ppc = "close"
    /\ conn' = IF conn = "none" THEN conn ELSE "closed"
    /\ ppc' = IF conn = "none" THEN "crashed" ELSE "done"
    /\ UNCHANGED <<serial_errors, sleep_time, raw_data, report, calls, fed,
                   pclosing, stream, wire>>
    /\ UNCHANGED <<influxVars, decVars>>

InfluxIdle ==
    /\ client = FALSE
    /\ queue = <<>>
    /\ heap = <<>>
    /\ closing = FALSE
    /\ wpc = "idle"
    /\ held = NoReport
    /\ sunk = <<>>
    /\ handed = <<>>
    /\ failsLeft = 0
    /\ mpc = "init"
    /\ attempts = 0
    /\ pauses = 0

InfluxInit ==
    /\ client \in BOOLEAN
    /\ queue = <<>>
    /\ heap = <<>>
    /\ closing = FALSE
    /\ wpc = "idle"
    /\ held = NoReport
    /\ sunk = <<>>
    /\ handed = <<>>
    /\ failsLeft = MaxFail
    /\ mpc = "init"
    /\ attempts = 0
    /\ pauses = 0

\* Influx.start()
Start ==
    /\ mpc = "init"
    /\ mpc' = "running"
    /\ wpc' = "begin"
    /\ UNCHANGED <<client, queue, heap, closing, held, sunk, handed, failsLeft>>
    /\ UNCHANGED <<attempts, pauses>>
    /\ UNCHANGED <<pollVars, decVars>>

\* Influx.__call__(report): the caller built a Report with a values dict.
Submit ==
    /\ Len(handed) < MaxReports
    /\ \E v \in ReportValues :
        LET ref == Len(heap) + 1
            r == [values |-> ref, time |-> ref]
        IN  /\ heap' = Append(heap, v)
            /\ handed' = Append(handed, v)
            /\ queue' = IF client THEN QueuePut(queue, r) ELSE queue
    /\ UNCHANGED <<client, closing, wpc, held, sunk, failsLeft, mpc>>
    /\ UNCHANGED <<attempts, pauses>>
    /\ UNCHANGED <<pollVars, decVars>>

\* A worker that enters its loop without looking for the client.
WorkerBeginNoCheck ==
    /\ wpc = "begin"
    /\ wpc' = "loop"
    /\ UNCHANGED <<client, queue, heap, closing, held, sunk, handed, failsLeft, mpc>>
    /\ UNCHANGED <<attempts, pauses>>
    /\ UNCHANGED <<pollVars, decVars>>

\* _send_measurements: "no client?" and write_api().
WorkerBegin ==
    /\ wpc = "begin"
    /\ wpc' = IF client THEN "loop" ELSE "done"
    /\ UNCHANGED <<client, queue, heap, closing, held, sunk, handed, failsLeft, mpc>>
    /\ UNCHANGED <<attempts, pauses>>
    /\ UNCHANGED <<pollVars, decVars>>

\* while not self._closing.is_set():
WorkerLoop ==
    /\ wpc = "loop"
    /\ wpc' = IF closing THEN "done" ELSE "get"
    /\ UNCHANGED <<client, queue, heap, closing, held, sunk, handed, failsLeft, mpc>>
    /\ UNCHANGED <<attempts, pauses>>
    /\ UNCHANGED <<pollVars, decVars>>

\* report = self._queue.get().copy(), blocking while the queue is empty,
\* followed by the windspeed conversion on report.values.
WorkerGet ==
    /\ wpc = "get"
    /\ queue # <<>>
    /\ held' = Copy(Head(queue))
    /\ queue' = Tail(queue)
    /\ heap' = [heap EXCEPT ![Head(queue).values] = ConvertWindspeed(@)]
    /\ wpc' = "write"
    /\ UNCHANGED <<client, closing, sunk, handed, failsLeft, mpc>>
    /\ UNCHANGED <<attempts, pauses>>
    /\ UNCHANGED <<pollVars, decVars>>

\* write_api.write(...) returned.
WriteOk ==
    /\ wpc = "write"
    /\ sunk' = Append(sunk, SinkRecord(held, heap))
    /\ wpc' = "loop"
    /\ UNCHANGED <<client, queue, heap, closing, held, handed, failsLeft, mpc>>
    /\ attempts' = attempts + 1
    /\ UNCHANGED pauses
    /\ UNCHANGED <<pollVars, decVars>>

\* write_api.write(...) raised NewConnectionError or ReadTimeoutError.
WriteTransient ==
    /\ wpc = "write"
    /\ failsLeft > 0
    /\ failsLeft' = failsLeft - 1
    /\ queue' = PutBack(queue, held)
    /\ wpc' = "sleep"
    /\ UNCHANGED <<client, heap, closing, held, sunk, handed, mpc>>
    /\ attempts' = attempts + 1
    /\ UNCHANGED pauses
    /\ UNCHANGED <<pollVars, decVars>>

\* write_api.write(...) raised anything else: no except clause matches, the
\* exception leaves _send_measurements and the thread ends.
WritePermanent ==
    /\ wpc = "write"
    /\ wpc' = "crashed"
    /\ UNCHANGED <<client, queue, heap, closing, held, sunk, handed, failsLeft, mpc>>
    /\ attempts' = attempts + 1
    /\ UNCHANGED pauses
    /\ UNCHANGED <<pollVars, decVars>>

\* time.sleep(10) is over.
WorkerSleep ==
    /\ wpc = "sleep"
    /\ wpc' = "loop"
    /\ UNCHANGED <<client, queue, heap, closing, held, sunk, handed, failsLeft, mpc>>
    /\ pauses' = pauses + 1
    /\ UNCHANGED attempts
    /\ UNCHANGED <<pollVars, decVars>>

\* Influx.stop(): self._closing.set(), then the join begins.
Stop ==
    /\ mpc = "running"
    /\ closing' = TRUE
    /\ mpc' = "joining"
    /\ UNCHANGED <<client, queue, heap, wpc, held, sunk, handed, failsLeft>>
    /\ UNCHANGED <<attempts, pauses>>
    /\ UNCHANGED <<pollVars, decVars>>

\* self._thread.join() returns once the thread has ended.
Join ==
    /\ mpc = "joining"
    /\ wpc \in {"done", "crashed"}
    /\ mpc' = "stopped"
    /\ UNCHANGED <<client, queue, heap, closing, wpc, held, sunk, handed, failsLeft>>
    /\ UNCHANGED <<attempts, pauses>>
    /\ UNCHANGED <<pollVars, decVars>>

WorkerNext ==
    \/ WorkerBegin
    \/ WorkerLoop
    \/ WorkerGet
    \/ WriteOk
    \/ WriteTransient
    \/ WritePermanent
    \/ WorkerSleep

(***************************************************************************)
(* The forwarding queue: claims C1..C6.                                    *)
(***************************************************************************)
\* Report i (the i-th submitted) is waiting in the queue.
InQueue(i) == \E k \in 1..Len(queue) : queue[k].values = i

\* Report i is the one the worker is writing.
HeldByWorker(i) == wpc = "write" /\ held.values = i

\* The sink accepted a record of report i.
Delivered(i) == \E k \in 1..Len(sunk) : sunk[k].time = i

NoLoss ==
    (client /\ wpc # "crashed") =>
        \A i \in 1..Len(handed) : InQueue(i) \/ HeldByWorker(i) \/ Delivered(i)

\* C1: with credentials configured, no stop requested and only transient
\* write failures, finitely many of them, every submitted report is
\* eventually accepted by the sink; and as long as no other failure occurred
\* every submitted report is in the queue, held by the worker or delivered.
C1_EventuallyDelivered ==
    /\ []NoLoss
    /\ \A i \in 1..MaxReports :
        (client /\ Len(handed) >= i) ~> (Delivered(i) \/ closing \/ wpc = "crashed")

\* All transient failures happened, no stop, and every report got through.
C1_Witness ==
    /\ client /\ ~closing /\ wpc # "crashed"
    /\ failsLeft = 0
    /\ Len(handed) >= 2
    /\ \A i \in 1..Len(handed) : Delivered(i)

\* C2: the sink accepts the reports in submission order, and a report whose
\* write failed transiently is at the head of the queue while the worker
\* pauses, so that the next write attempt is for that report again.
C2_SubmissionOrder ==
    /\ \A j, k \in 1..Len(sunk) : j < k => sunk[j].time < sunk[k].time
    /\ wpc = "sleep" => Head(queue).values = held.values

\* C3: the worker thread of a configured Influx object has ended only if
\* stop() was requested; a write failure of any kind does not end it.
C3_WorkerEndsOnlyOnStop ==
    (client /\ wpc \in {"done", "crashed"}) => closing

\* C4: while stop() waits in the join, the worker has ended or can take its
\* next step by itself, without a further report being submitted.
C4_StopReturns ==
    mpc = "joining" => (wpc \in {"done", "crashed"} \/ ENABLED WorkerNext)

\* C5: every record the sink accepted holds the submitted values with the
\* wind speed converted exactly once, whatever the number of failed attempts.
C5_ConvertedOnce ==
    \A k \in 1..Len(sunk) :
        sunk[k].fields = ConvertWindspeed(handed[sunk[k].time])

\* C6: the values seen through the Report reference the submitter still
\* holds are the values the Report had when it was handed over.
C6_HandedOffUnchanged ==
    \A i \in 1..Len(handed) : heap[i] = handed[i]

PollIdle == PollInit

DecIdle ==
    /\ dbuf = <<>>
    /\ dout = [msgs |-> <<>>, rest |-> <<>>]
    /\ dpc = "idle"

Init == InfluxInit /\ PollIdle /\ DecIdle

Next ==
    \/ Start
    \/ Submit
    \/ WorkerNext
    \/ Stop
    \/ Join

Spec == Init /\ [][Next]_vars

\* The worker is a thread of its own and main() calls start() right after
\* the construction: both keep running.  Nothing forces a report or a stop.
SpecFair == Spec /\ WF_vars(Start) /\ WF_vars(WorkerNext)

(***************************************************************************)
(* The poll thread of a Lambrecht object on its own.                       *)
(***************************************************************************)
InitPoll == InfluxIdle /\ PollInit /\ DecIdle

NextPoll ==
    \/ StartPolling
    \/ StopPolling
    \/ PollLoop
    \/ ConnectOk
    \/ ConnectFail
    \/ BackoffEnd
    \/ Read
    \/ ReadFail
    \/ ReadWaitEnd
    \/ PollClose

SpecPoll == InitPoll /\ [][NextPoll]_vars

\* The steps of the poll thread itself; the thread is scheduled.
PollThreadNext ==
    PollLoop \/ ConnectOk \/ ConnectFail \/ BackoffEnd \/ Read \/ ReadFail
        \/ ReadWaitEnd \/ PollClose

SpecPollFair == SpecPoll /\ WF_vars(PollThreadNext)

(***************************************************************************)
(* The poll thread: claims C7, C8, C10.                                    *)
(***************************************************************************)
\* The bytes the reads have returned so far.
Consumed == SubSeq(stream, 1, Len(stream) - Len(wire))

\* Every callback call so far returned: each call was followed by a new
\* Report object.
NoCallbackRaised ==
    /\ report.id = Len(calls) + 1
    /\ \A i \in 1..Len(calls) : calls[i].id = i

\* The station has sent exactly the four sentences of one cycle, in the
\* order of any of the streams, and the poll thread has processed them.
OneCycleProcessed ==
    /\ conn = "open"
    /\ ppc = "loop"
    /\ \E o \in 0..(Len(Cycle) - 1) : Consumed = Flatten(Window(o, Len(Cycle)))
    /\ NoCallbackRaised

\* C7: once the complete sentences of one cycle, which cover the six
\* required fields, have been read and processed, in one read or in several,
\* the callback has been called with exactly one Report, and that Report
\* holds the values of the sentences.
C7_OneReportPerCycle ==
    OneCycleProcessed => (Len(calls) = 1 /\ calls[1].values = CycleValues)

\* C8: no Report object is passed to the callback twice, also after a
\* callback call that raised.
C8_CalledOncePerReport ==
    \A i, j \in 1..Len(calls) : i < j => calls[i].id # calls[j].id

\* C10: however the bytes read so far were cut into reads, the sentences
\* handed to the assembler, the Reports passed to the callback and the
\* remainder are those of one read of all these bytes.
C10_ChunkIndependent ==
    (conn = "open" /\ ppc \in {"loop", "readwait"} /\ NoCallbackRaised) =>
        LET one == ReadData(<<>>, FreshAssembler, Consumed, FALSE)
        IN  /\ fed = one.fed
            /\ calls = one.calls
            /\ raw_data = one.raw

\* The number of sentences the reads have returned so far.
SentencesRead == Cardinality({i \in 1..Len(Consumed) : Consumed[i] = NL})

\* C11: a sentence with a missing or unparsable field is recovered locally:
\* it never makes the poll thread skip the sentences that the same read
\* returned after it, so every sentence read so far has been handed to
\* _analyse_message.
C11_NoSentenceSkipped ==
    (conn = "open" /\ ppc \in {"loop", "readwait"} /\ NoCallbackRaised) =>
        Len(fed) = SentencesRead

\* The fields a sentence carries, by the positions of its type.
Carried(msg) == Dispatch([report |-> NewReport(0), exc |-> FALSE], Split(msg)).report.values

\* The sentences handed to _analyse_message for the k-th emitted Report:
\* those after the previous emission, up to this one.
SentencesOf(k) ==
    SubSeq(fed, IF k = 1 THEN 1 ELSE calls[k - 1].after + 1, calls[k].after)

\* The positions in ss of the sentences that carry field f.
Carrying(ss, f) == {i \in 1..Len(ss) : f \in DOMAIN Carried(ss[i])}

Latest(S) == CHOOSE i \in S : \A j \in S : j <= i

\* C12: last write wins: for every field for which sentences were processed
\* before the Report completed, the emitted Report holds the value of the
\* latest of them.
C12_LastWriteWins ==
    NoCallbackRaised =>
        \A k \in 1..Len(calls) : \A f \in RequiredFields :
            LET ss == SentencesOf(k)
            IN  Carrying(ss, f) # {} =>
                    calls[k].values[f] = Carried(ss[Latest(Carrying(ss, f))])[f]

\* C13: the backoff duration stays between its initial value and the
\* configured ceiling, for any number of consecutive connection failures.
C13_SleepTimeWithinCeiling == sleep_time \in ThreadSleep..MaxThreadSleep

\* C14: whenever the poll thread has ended, it ended normally and the
\* serial connection has been closed.
C14_ClosedOnExit ==
    ppc \in {"done", "crashed"} => (ppc = "done" /\ conn = "closed")

\* The poll thread is in one of its two waits on the closing event.
InBackoffWait == ppc \in {"backoff", "readwait"}

ThreadEnded == ppc \in {"done", "crashed"}

\* How far the thread is on its way out: wait, loop test, close, ended.
StopRank(pc) ==
    IF pc \in {"backoff", "readwait"} THEN 0
    ELSE IF pc = "loop" THEN 1
    ELSE IF pc = "close" THEN 2
    ELSE 3

\* From a wait with stop requested the thread only moves on towards its end.
StraightToEnd ==
    (pclosing /\ ppc \in {"backoff", "readwait", "loop", "close", "done", "crashed"}) =>
        /\ ppc' \in {"backoff", "readwait", "loop", "close", "done", "crashed"}
        /\ \/ ppc' = ppc
           \/ StopRank(ppc') > StopRank(ppc)

\* C15: a stop requested during a backoff wait ends the wait and the thread,
\* so that join() returns, with no further connection attempt, read or wait.
C15_StopDuringBackoff ==
    /\ [][StraightToEnd]_vars
    /\ (pclosing /\ InBackoffWait) ~> ThreadEnded

C15_Witness == pclosing /\ InBackoffWait

\* The wait after a failed serial read: no _analyse_message call has begun,
\* so the exception that led to the wait came from self._conn.read.
InReadFailureWait == ppc = "readwait" /\ fed = <<>>

\* C16: after a failed serial read the loop does not go on with the
\* connection the read failed on: when the wait after the failure is over,
\* that connection is no longer the one in use, and _poll connects anew.
C16_ReconnectAfterReadFailure ==
    [][(InReadFailureWait /\ ppc' = "loop") => conn' # "open"]_vars

\* A submit has just put its report into the queue, behind all the entries
\* that were waiting, which keep their order.
AppendedAtTail ==
    /\ Len(queue') = Len(queue) + 1
    /\ SubSeq(queue', 1, Len(queue)) = queue
    /\ queue'[Len(queue')].values = Len(heap')

\* C17: with a sink configured, submit can be taken in every state, whatever
\* the worker is doing, and it appends the report at the tail of the queue.
C17_SubmitAppendsAtTail ==
    /\ []((client /\ Len(handed) < MaxReports) => ENABLED Submit)
    /\ [][(client /\ handed' # handed) => AppendedAtTail]_vars

\* A report was submitted during the worker's retry pause, behind others.
C17_Witness ==
    /\ client
    /\ wpc = "sleep"
    /\ Len(queue) >= 2
    /\ queue[Len(queue)].values = Len(heap)
    /\ queue[Len(queue)].values # held.values

\* Without a client nothing is queued, nothing is written, and the worker
\* is not in its loop.
NothingForwarded ==
    /\ queue = <<>>
    /\ sunk = <<>>
    /\ held = NoReport
    /\ wpc \in {"idle", "begin", "done"}

\* C18: when a credential is missing, every submit is accepted and its
\* report discarded, the queue stays empty, no write is attempted, and the
\* worker ends after start(), so that stop() returns.
C18_NoCredentialsNoOp ==
    /\ [](~client => NothingForwarded)
    /\ []((~client /\ Len(handed) < MaxReports) => ENABLED Submit)
    /\ (~client /\ mpc = "joining") ~> (wpc = "done")

\* Reports were submitted without a client, and start() and stop() returned.
C18_Witness == ~client /\ handed # <<>> /\ mpc = "stopped"

\* The transient failures the sink has produced so far.
Failures == MaxFail - failsLeft

\* C19: for a single entry whose write fails transiently k times and then
\* succeeds, the worker makes k + 1 write attempts, takes k pauses, one after
\* each failure and before the next attempt, and delivers the entry once.
C19_RetryCounts ==
    (client /\ Len(handed) = 1) =>
        /\ Len(sunk) <= 1
        /\ wpc = "write" => (attempts = Failures /\ pauses = Failures)
        /\ sunk # <<>> =>
            (attempts = Failures + 1 /\ pauses = Failures /\ queue = <<>>)

\* The single entry was delivered after MaxFail failed writes.
C19_Witness ==
    /\ client
    /\ Len(handed) = 1
    /\ Len(sunk) = 1
    /\ Failures = MaxFail
    /\ attempts = MaxFail + 1

\* The sentences handed to _analyse_message since the last emitted Report.
SentencesSinceEmission ==
    SubSeq(fed, IF calls = <<>> THEN 1 ELSE calls[Len(calls)].after + 1, Len(fed))

\* C21: every value in the in-progress Report was parsed from a complete
\* sentence that the decoder returned and _analyse_message was called with;
\* the bytes of the remainder set no field.
C21_ValuesFromCompleteSentences ==
    NoCallbackRaised =>
        \A f \in DOMAIN report.values :
            \E i \in 1..Len(SentencesSinceEmission) :
                LET c == Carried(SentencesSinceEmission[i])
                IN  f \in DOMAIN c /\ c[f] = report.values[f]

\* Every Report the callback was called with had the six required fields.
EmittedComplete == \A i \in 1..Len(calls) : Finished(calls[i])

\* The last _analyse_message call so far ended with a callback call that
\* returned: the in-progress Report is a new one, with no field set.
FreshAfterEmission ==
    (calls # <<>> /\ calls[Len(calls)].after = Len(fed) /\ NoCallbackRaised) =>
        report = NewReport(Len(calls) + 1)

\* When the thread is about to read, and so to process the next sentence,
\* the in-progress Report lacks at least one required field.
IncompleteAtStart == ppc = "read" => ~Finished(report)

\* C22: a Report passed to the callback has all six fields; right after a
\* callback that returned the in-progress Report is new and empty; and the
\* in-progress Report never has all six fields when a sentence is about to
\* be processed.
C22_CompleteThenFresh ==
    EmittedComplete /\ FreshAfterEmission /\ IncompleteAtStart

(***************************************************************************)
(* _extract_messages on its own: claim C9.                                 *)
(***************************************************************************)
DecAlphabet == {NL, "$", "5"}

RECURSIVE Buffers(_)
Buffers(n) ==
    IF n = 0 THEN {<<>>}
    ELSE LET shorter == Buffers(n - 1)
         IN  shorter \cup {Append(b, c) : b \in {x \in shorter : Len(x) = n - 1},
                                           c \in DecAlphabet}

DecInit ==
    /\ dbuf \in Buffers(MaxBuf)
    /\ dout = [msgs |-> <<>>, rest |-> <<>>]
    /\ dpc = "in"

\* msgs, rest = self._extract_messages(buffer)
Extract ==
    /\ dpc = "in"
    /\ dout' = ExtractMessages(dbuf)
    /\ dpc' = "out"
    /\ UNCHANGED dbuf
    /\ UNCHANGED <<influxVars, pollVars>>

InitDecoder == InfluxIdle /\ PollInit /\ DecInit

NextDecoder == Extract

SpecDecoder == InitDecoder /\ [][NextDecoder]_vars

\* C9: the messages in order followed by the rest are the buffer; every
\* message ends with the newline that is its only newline; the rest holds no
\* newline; the empty buffer gives no message and an empty rest.
C9_ExtractLossless ==
    dpc = "out" =>
        /\ Flatten(dout.msgs) \o dout.rest = dbuf
        /\ \A i \in 1..Len(dout.msgs) :
            LET m == dout.msgs[i]
            IN  /\ Len(m) >= 1
                /\ m[Len(m)] = NL
                /\ \A j \in 1..(Len(m) - 1) : m[j] # NL
        /\ NL \notin Range(dout.rest)
        /\ dbuf = <<>> => (dout.msgs = <<>> /\ dout.rest = <<>>)

\* A buffer of two messages, one of them empty but for its terminator, and
\* a rest.
C9_Witness ==
    /\ dpc = "out"
    /\ Len(dout.msgs) = 2
    /\ <<NL>> \in Range(dout.msgs)
    /\ dout.rest # <<>>

\* C20: a sentence that is only its terminator is dropped by the decoder: it
\* is not in the list of sentences that _read_data hands to _analyse_message.
C20_EmptySentenceDropped ==
    dpc = "out" => <<NL>> \notin Range(dout.msgs)


=============================================================================
